---- MODULE Spec2Model ----
(***************************************************************************)
(* Model of src/app.py: a Flask webhook that relays Telegram messages to   *)
(* Gemini and keeps a per-user conversation history in one SQLite table.   *)
(*                                                                         *)
(* The shared state is the table `messages` and the wall clock.  Every     *)
(* webhook request is a sequence of steps; a step is one storage           *)
(* transaction (add_message, get_history, clear_history open their own     *)
(* connection and commit), one call of the model, or one call of the       *)
(* platform.  Requests run concurrently (thread or worker per request) and *)
(* interleave between steps; nothing in app.py locks across steps.         *)
(*                                                                         *)
(* A text is a sequence of string fragments.  Inbound texts are spelled    *)
(* character by character so that strip() and startswith() are computed;   *)
(* the fixed messages of app.py are one fragment each.                     *)
(***************************************************************************)
EXTENDS Integers, Sequences, FiniteSets, TLC

\* ---------------------------------------------------------------- bounds
\* Largest value int(time.time()) takes in a run (the clock starts at 0).
MaxClock == 1
\* MAX_HISTORY_MESSAGES is read from the environment (src/app.py line 30,
\* default "12"); the runs use a deployment configured with a small value so
\* that a user can own more rows than the limit.
MAX_HISTORY_MESSAGES == 2

\* A run follows two webhook requests, numbered in their order of arrival,
\* which overlap in every possible way, and two users.
Requests == {1, 2}
Users == {1, 2}

\* ------------------------------------------------------- fixed messages
SYSTEM_PROMPT == <<"You are a friendly, professional and empathetic assistant">>
APOLOGY == <<"Sorry - I'm having trouble talking to my brain (API). Please try again shortly.">>
TEXT_ONLY_NOTICE == <<"I only understand text for now.">>
RESET_CONFIRMATION == <<"Conversation history cleared. Let's start fresh!">>
HELP_TEXT == <<"I am an AI chat bot. Just type anything and I'll reply like a human.">>

\* ------------------------------------------------------------ text ops
IsSpace(c) == c = " "

RECURSIVE lstrip(_)
lstrip(s) ==
    IF s = <<>> THEN <<>>
    ELSE IF IsSpace(Head(s)) THEN lstrip(Tail(s)) ELSE s

RECURSIVE rstrip(_)
rstrip(s) ==
    IF s = <<>> THEN <<>>
    ELSE IF IsSpace(s[Len(s)]) THEN rstrip(SubSeq(s, 1, Len(s) - 1)) ELSE s

\* str.strip(): leading and trailing whitespace removed.
strip(s) == rstrip(lstrip(s))

\* str.startswith(prefix)
startswith(s, prefix) ==
    /\ Len(s) >= Len(prefix)
    /\ SubSeq(s, 1, Len(prefix)) = prefix

RESET_COMMAND == <<"/", "r", "e", "s", "e", "t">>
HELP_COMMAND == <<"/", "h", "e", "l", "p">>

\* -------------------------------------------------------------- inputs
\* The text fields the inbound updates carry.
InboundTexts ==
    { <<"a">>,
      <<" ", "b", " ">>,
      <<" ", "/", "r", "e", "s", "e", "t", "x">>,
      <<"/", "h", "e", "l", "p">> }

\* The JSON updates POSTed to /webhook.  kind: "badtype" is a request whose
\* content type is not application/json, "empty" a JSON body that is falsy
\* ({}), "nomessage" an update with neither message nor edited_message,
\* "message" an update with one of them.  textField: "absent" when the message
\* has no text key (photo, sticker), "null" when the key holds null, "string"
\* when it holds a string.
NoMessageUpdates ==
    { [kind |-> k, user_id |-> 0, textField |-> "absent", text |-> <<>>] :
        k \in {"badtype", "empty", "nomessage"} }

MessageUpdates ==
    { [kind |-> "message", user_id |-> u, textField |-> f, text |-> <<>>] :
        u \in Users, f \in {"absent", "null"} }
    \cup
    { [kind |-> "message", user_id |-> u, textField |-> "string", text |-> t] :
        u \in Users, t \in InboundTexts }

Updates == NoMessageUpdates \cup MessageUpdates

NoUpdate == [kind |-> "none", user_id |-> 0, textField |-> "absent", text |-> <<>>]

\* What the model API answers when it answers: response.text, or a response
\* without a text attribute, whose str() is used instead.
MODEL_RESPONSE_TEXT == <<" ", "o", "k", " ">>
MODEL_RESPONSE_STR == <<"<GenerateContentResponse>">>

VARIABLES
    messages,   \* the rows of table messages, in rowid (insertion) order
    clock,      \* int(time.time())
    pc,         \* pc[r]: where request r stands in webhook()
    update,     \* update[r]: the update request r carries
    history,    \* history[r]: the list ask_gemini passed to start_chat
    utterance,  \* utterance[r]: the texts passed to chat.send_message
    reply,      \* reply[r]: what ask_gemini returned
    sent,       \* sent[r]: the texts request r posted to sendMessage
    status,     \* status[r]: the HTTP status of the response, 0 before it
    effects,    \* effects[r]: the steps request r has executed, in order
    inserted    \* every (user_id, role, text) ever INSERTed

vars == <<messages, clock, pc, update, history, utterance, reply, sent,
          status, effects, inserted>>

\* ---------------------------------------------------------- the store
Min(a, b) == IF a <= b THEN a ELSE b

\* ORDER BY created_at ASC.  SQLite sorts the scanned rows (scanned in rowid
\* order) through a temporary b-tree keyed by (created_at, scan sequence), so
\* rows with equal created_at keep their rowid order.
RECURSIVE InsertByCreatedAt(_, _)
InsertByCreatedAt(sorted, row) ==
    IF sorted = <<>> THEN <<row>>
    ELSE IF sorted[Len(sorted)].created_at <= row.created_at
         THEN Append(sorted, row)
         ELSE Append(InsertByCreatedAt(SubSeq(sorted, 1, Len(sorted) - 1), row),
                     sorted[Len(sorted)])

RECURSIVE OrderByCreatedAt(_)
OrderByCreatedAt(rows) ==
    IF rows = <<>> THEN <<>>
    ELSE InsertByCreatedAt(OrderByCreatedAt(SubSeq(rows, 1, Len(rows) - 1)),
                           rows[Len(rows)])

\* The SELECT without its WHERE clause: the rows of every user.
RowsOf_all_users(user_id) == messages

\* WHERE user_id = ?
RowsOf(user_id) == SelectSeq(messages, LAMBDA m : m.user_id = user_id)

\* SELECT role, text FROM messages WHERE user_id = ?
\* ORDER BY created_at ASC LIMIT ?
get_history(user_id, limit) ==
    LET rows == OrderByCreatedAt(RowsOf(user_id))
        n == Min(limit, Len(rows))
    IN  [i \in 1..n |-> <<rows[i].role, rows[i].text>>]

\* add_message as INSERT OR REPLACE keyed by user_id: the new row takes the
\* place of the user's earlier rows.
add_message_replaces(user_id, role, text) ==
    /\ messages' = Append(SelectSeq(messages, LAMBDA m : m.user_id # user_id),
                          [user_id |-> user_id, role |-> role, text |-> text,
                           created_at |-> clock])
    /\ inserted' = inserted \cup {[user_id |-> user_id, role |-> role, text |-> text]}

\* INSERT INTO messages (user_id, role, text, created_at) VALUES (?, ?, ?, ?)
add_message(user_id, role, text) ==
    /\ messages' = Append(messages,
                          [user_id |-> user_id, role |-> role, text |-> text,
                           created_at |-> clock])
    /\ inserted' = inserted \cup {[user_id |-> user_id, role |-> role, text |-> text]}

\* clear_history without conn.commit(): the DELETE is rolled back when the
\* connection closes.
clear_history_uncommitted(user_id) ==
    messages' = messages

\* The DELETE without its WHERE clause: the rows of every user go.
clear_history_all_users(user_id) ==
    messages' = <<>>

\* DELETE FROM messages WHERE user_id = ?
clear_history(user_id) ==
    messages' = SelectSeq(messages, LAMBDA m : m.user_id # user_id)

\* -------------------------------------------------- conversation builder
SystemEntry == [role |-> "system", content |-> SYSTEM_PROMPT]

\* build_history_for_gemini reading the whole history: get_history called
\* without the limit of MAX_HISTORY_MESSAGES.
build_history_for_gemini_unlimited(user_id) ==
    LET rows == get_history(user_id, Len(messages))
    IN  <<SystemEntry>> \o [i \in 1..Len(rows) |->
                              [role |-> rows[i][1], content |-> rows[i][2]]]

build_history_for_gemini(user_id) ==
    LET rows == get_history(user_id, MAX_HISTORY_MESSAGES)
    IN  <<SystemEntry>> \o [i \in 1..Len(rows) |->
                              [role |-> rows[i][1], content |-> rows[i][2]]]

\* ------------------------------------------------------------- webhook
\* message.get("text", ""): the default applies only when the key is absent.
message_text(u) ==
    IF u.textField = "absent" THEN <<>> ELSE u.text

\* text = text.strip() of request r (line 180).
TextOf(r) == strip(message_text(update[r]))
UserOf(r) == update[r].user_id

Init ==
    /\ messages = <<>>
    /\ clock = 0
    /\ pc = [r \in Requests |-> "idle"]
    /\ update = [r \in Requests |-> NoUpdate]
    /\ history = [r \in Requests |-> <<>>]
    /\ utterance = [r \in Requests |-> <<>>]
    /\ reply = [r \in Requests |-> <<>>]
    /\ sent = [r \in Requests |-> <<>>]
    /\ status = [r \in Requests |-> 0]
    /\ effects = [r \in Requests |-> <<>>]
    /\ inserted = {}

\* Request r ends with HTTP status `code`, after executing `steps`.  An
\* exception nothing catches ends the request with Flask's 500 response.
Respond(r, code, steps) ==
    /\ pc' = [pc EXCEPT ![r] = "done"]
    /\ status' = [status EXCEPT ![r] = code]
    /\ effects' = [effects EXCEPT ![r] = @ \o steps]

\* Request r goes on to `next`, after executing `steps`.
Goto(r, next, steps) ==
    /\ pc' = [pc EXCEPT ![r] = next]
    /\ effects' = [effects EXCEPT ![r] = @ \o steps]
    /\ UNCHANGED status

\* webhook() answering an update without a message like a falsy body: 400.
Dispatch_rejects_no_message(u) ==
    IF u.kind = "badtype" THEN "abort400"
    ELSE IF u.kind = "empty" THEN "json400"
    ELSE IF u.kind = "nomessage" THEN "json400"
    ELSE IF u.textField = "null" THEN "notice"
    ELSE IF startswith(strip(message_text(u)), RESET_COMMAND) THEN "reset"
    ELSE IF startswith(strip(message_text(u)), HELP_COMMAND) THEN "help"
    ELSE "add_user"

\* Where lines 156-194 send an update before the first call with an effect.
Dispatch(u) ==
    IF u.kind = "badtype" THEN "abort400"
    ELSE IF u.kind = "empty" THEN "json400"
    ELSE IF u.kind = "nomessage" THEN "ignore"
    ELSE IF u.textField = "null" THEN "notice"
    ELSE IF startswith(strip(message_text(u)), RESET_COMMAND) THEN "reset"
    ELSE IF startswith(strip(message_text(u)), HELP_COMMAND) THEN "help"
    ELSE "add_user"

\* Requests are numbered in the order they arrive.
Receive(r) ==
    /\ pc[r] = "idle"
    /\ \A q \in Requests : q < r => pc[q] # "idle"
    /\ \E u \in Updates :
        /\ update' = [update EXCEPT ![r] = u]
        /\ \/ /\ Dispatch(u) \in {"abort400", "json400"}
              /\ Respond(r, 400, <<Dispatch(u)>>)
           \/ /\ Dispatch(u) = "ignore"
              /\ Respond(r, 200, <<"ignore">>)
           \/ /\ Dispatch(u) \in {"notice", "reset", "help", "add_user"}
              /\ Goto(r, Dispatch(u), <<"parsed">>)
    /\ UNCHANGED <<messages, clock, history, utterance, reply, sent, inserted>>

\* A storage call (sqlite3.connect, execute, commit) raised: nothing is
\* committed, no caller catches it, the request ends there.
StorageError(r) ==
    /\ Respond(r, 500, <<"storage_error">>)
    /\ UNCHANGED <<messages, inserted>>

\* send_telegram_message calling resp.raise_for_status(): an error status of
\* the platform raises instead of being logged.
SendAndReturn_raise_for_status(r, text) ==
    /\ sent' = [sent EXCEPT ![r] = Append(@, text)]
    /\ \/ Respond(r, 200, <<"send">>)
       \/ Respond(r, 500, <<"send", "log_error">>)
       \/ Respond(r, 500, <<"send", "send_raised">>)

\* send_telegram_message(chat_id, text) followed by return jsonify({"ok": True}).
\* requests.post answers with resp.ok, answers with an error status (logged),
\* or raises (connection error, the 15 s timeout), which nothing catches.
SendAndReturn(r, text) ==
    /\ sent' = [sent EXCEPT ![r] = Append(@, text)]
    /\ \/ Respond(r, 200, <<"send">>)
       \/ Respond(r, 200, <<"send", "log_error">>)
       \/ Respond(r, 500, <<"send", "send_raised">>)

\* lines 175-178
SendNotice(r) ==
    /\ pc[r] = "notice"
    /\ SendAndReturn(r, TEXT_ONLY_NOTICE)
    /\ UNCHANGED <<messages, clock, update, history, utterance, reply, inserted>>

\* line 184
ClearHistory(r) ==
    /\ pc[r] = "reset"
    /\ \/ /\ clear_history(UserOf(r))
          /\ Goto(r, "reset_send", <<"clear_history">>)
          /\ UNCHANGED inserted
       \/ StorageError(r)
    /\ UNCHANGED <<clock, update, history, utterance, reply, sent>>

\* lines 185-186
SendResetConfirmation(r) ==
    /\ pc[r] = "reset_send"
    /\ SendAndReturn(r, RESET_CONFIRMATION)
    /\ UNCHANGED <<messages, clock, update, history, utterance, reply, inserted>>

\* lines 188-194
SendHelp(r) ==
    /\ pc[r] = "help"
    /\ SendAndReturn(r, HELP_TEXT)
    /\ UNCHANGED <<messages, clock, update, history, utterance, reply, inserted>>

\* webhook() holding a per-user lock from line 197 to its return: the first
\* append waits while another request of the same user is between its first
\* append and its response.
AddUserMessage_serialized(r) ==
    /\ pc[r] = "add_user"
    /\ \A q \in Requests \ {r} :
          ~(UserOf(q) = UserOf(r)
            /\ pc[q] \in {"build", "ask", "add_assistant", "send_reply"})
    /\ \/ /\ add_message(UserOf(r), "user", TextOf(r))
          /\ Goto(r, "build", <<"add_message">>)
       \/ StorageError(r)
    /\ UNCHANGED <<clock, update, history, utterance, reply, sent>>

\* webhook without line 197: the text goes to ask_gemini before any user
\* Turn is appended.
AddUserMessage_skipped(r) ==
    /\ pc[r] = "add_user"
    /\ \/ /\ Goto(r, "build", <<>>)
          /\ UNCHANGED <<messages, inserted>>
       \/ StorageError(r)
    /\ UNCHANGED <<clock, update, history, utterance, reply, sent>>

\* line 197
AddUserMessage(r) ==
    /\ pc[r] = "add_user"
    /\ \/ /\ add_message(UserOf(r), "user", TextOf(r))
          /\ Goto(r, "build", <<"add_message">>)
       \/ StorageError(r)
    /\ UNCHANGED <<clock, update, history, utterance, reply, sent>>

\* ask_gemini with line 118 inside the try block: a storage error of
\* get_history is caught like a model error and answered with the apology.
BuildHistory_swallows(r) ==
    /\ pc[r] = "build"
    /\ \/ /\ history' = [history EXCEPT ![r] = build_history_for_gemini(UserOf(r))]
          /\ Goto(r, "ask", <<"get_history">>)
          /\ UNCHANGED reply
       \/ /\ reply' = [reply EXCEPT ![r] = APOLOGY]
          /\ Goto(r, "add_assistant", <<"storage_error">>)
          /\ UNCHANGED history
    /\ UNCHANGED <<messages, clock, update, utterance, sent, inserted>>

\* ask_gemini, line 118: the history is read outside the try block.
BuildHistory(r) ==
    /\ pc[r] = "build"
    /\ \/ /\ history' = [history EXCEPT ![r] = build_history_for_gemini(UserOf(r))]
          /\ Goto(r, "ask", <<"get_history">>)
       \/ /\ Respond(r, 500, <<"storage_error">>)
          /\ UNCHANGED history
    /\ UNCHANGED <<messages, clock, update, utterance, reply, sent, inserted>>

\* AskModel without the try/except of lines 120 and 130-132: the exception
\* of the model call reaches webhook() and ends the request.
AskModel_propagates(r) ==
    /\ pc[r] = "ask"
    /\ utterance' = [utterance EXCEPT ![r] = Append(@, TextOf(r))]
    /\ \/ /\ reply' = [reply EXCEPT ![r] = strip(MODEL_RESPONSE_TEXT)]
          /\ Goto(r, "add_assistant", <<"model">>)
       \/ /\ reply' = [reply EXCEPT ![r] = strip(MODEL_RESPONSE_STR)]
          /\ Goto(r, "add_assistant", <<"model">>)
       \/ /\ UNCHANGED reply
          /\ Respond(r, 500, <<"model", "model_raised">>)
    /\ UNCHANGED <<messages, clock, update, history, sent, inserted>>

\* ask_gemini, lines 120-132: start_chat(history) and send_message(user_text);
\* the reply is response.text stripped, str(response) stripped when there is no
\* text attribute, and the apology when either call raises.
AskModel(r) ==
    /\ pc[r] = "ask"
    /\ utterance' = [utterance EXCEPT ![r] = Append(@, TextOf(r))]
    /\ \/ /\ reply' = [reply EXCEPT ![r] = strip(MODEL_RESPONSE_TEXT)]
          /\ Goto(r, "add_assistant", <<"model">>)
       \/ /\ reply' = [reply EXCEPT ![r] = strip(MODEL_RESPONSE_STR)]
          /\ Goto(r, "add_assistant", <<"model">>)
       \/ /\ reply' = [reply EXCEPT ![r] = APOLOGY]
          /\ Goto(r, "add_assistant", <<"model", "model_raised">>)
    /\ UNCHANGED <<messages, clock, update, history, sent, inserted>>

\* webhook without line 203: the reply is sent but never stored.
AddAssistantMessage_not_stored(r) ==
    /\ pc[r] = "add_assistant"
    /\ \/ /\ Goto(r, "send_reply", <<>>)
          /\ UNCHANGED <<messages, inserted>>
       \/ StorageError(r)
    /\ UNCHANGED <<clock, update, history, utterance, reply, sent>>

\* line 203
AddAssistantMessage(r) ==
    /\ pc[r] = "add_assistant"
    /\ \/ /\ add_message(UserOf(r), "assistant", reply[r])
          /\ Goto(r, "send_reply", <<"add_message">>)
       \/ StorageError(r)
    /\ UNCHANGED <<clock, update, history, utterance, reply, sent>>

\* lines 206-207
SendReply(r) ==
    /\ pc[r] = "send_reply"
    /\ SendAndReturn(r, reply[r])
    /\ UNCHANGED <<messages, clock, update, history, utterance, reply, inserted>>

\* time.time() advances between any two steps.
Tick ==
    /\ clock < MaxClock
    /\ clock' = clock + 1
    /\ UNCHANGED <<messages, pc, update, history, utterance, reply, sent,
                   status, effects, inserted>>

Step(r) ==
    \/ Receive(r)
    \/ SendNotice(r)
    \/ ClearHistory(r)
    \/ SendResetConfirmation(r)
    \/ SendHelp(r)
    \/ AddUserMessage(r)
    \/ BuildHistory(r)
    \/ AskModel(r)
    \/ AddAssistantMessage(r)
    \/ SendReply(r)

Next ==
    \/ Tick
    \/ \E r \in Requests : Step(r)

Spec == Init /\ [][Next]_vars

\* The same handler behind a server that takes the requests of one user one
\* at a time (a single synchronous worker, or a platform that delivers a
\* user's next update only after the answer to the last): a request arrives
\* only when no other request of its user is between arrival and response.
ReceiveSequential(r) ==
    /\ Receive(r)
    /\ \A q \in Requests \ {r} :
          pc[q] \in {"idle", "done"} \/ UserOf(q) # update'[r].user_id

StepSequential(r) ==
    \/ ReceiveSequential(r)
    \/ SendNotice(r)
    \/ ClearHistory(r)
    \/ SendResetConfirmation(r)
    \/ SendHelp(r)
    \/ AddUserMessage(r)
    \/ BuildHistory(r)
    \/ AskModel(r)
    \/ AddAssistantMessage(r)
    \/ SendReply(r)

NextSequential ==
    \/ Tick
    \/ \E r \in Requests : StepSequential(r)

SpecSequential == Init /\ [][NextSequential]_vars

\* ------------------------------------------------------------ the claims
\* The Turns of a user as (role, text), in insertion (rowid) order.
Turns(user_id) ==
    LET rows == RowsOf(user_id)
    IN  [i \in 1..Len(rows) |-> <<rows[i].role, rows[i].text>>]

\* The last n elements of s (all of s when it has fewer).
LastN(s, n) ==
    IF Len(s) <= n THEN s ELSE SubSeq(s, Len(s) - n + 1, Len(s))

AsEntries(rows) ==
    [i \in 1..Len(rows) |-> [role |-> rows[i][1], content |-> rows[i][2]]]

Range(s) == {s[i] : i \in 1..Len(s)}
Occurs(x, s) == \E i \in 1..Len(s) : s[i] = x
Count(x, s) == Cardinality({i \in 1..Len(s) : s[i] = x})

IsMessage(r) == update[r].kind = "message"
\* r carries a text that is no command: the path of lines 196-207.
IsNormalText(r) == IsMessage(r) /\ Dispatch(update[r]) = "add_user"
\* r carries a message without a text: a photo, a sticker, a null text.
IsNonText(r) == IsMessage(r) /\ update[r].textField # "string"
\* r carries a text string that is no command.
IsPlainText(r) == IsNormalText(r) /\ update[r].textField = "string"
IsReset(r) == IsMessage(r) /\ Dispatch(update[r]) = "reset"

\* C1: for every user u and limit N, get_history(u, N) holds at most N Turns
\* and, when u owns more than N, the N most recent ones, oldest first; the
\* Conversation is the system entry followed by the last MAX_HISTORY_MESSAGES
\* Turns.
C1_MostRecentN ==
    \A u \in Users :
        /\ \A N \in 0..(MAX_HISTORY_MESSAGES + 1) :
              /\ Len(get_history(u, N)) <= N
              /\ get_history(u, N) = LastN(Turns(u), N)
        /\ build_history_for_gemini(u)
              = <<SystemEntry>> \o AsEntries(LastN(Turns(u), MAX_HISTORY_MESSAGES))

\* C2: when a user with no stored Turn sends a plain text t, the history
\* given to start_chat is exactly [system], t reaches the model only as the
\* new utterance, and after the request the user's Turns are
\* [(user, t), (assistant, reply)].
C2_FirstMessage ==
    \A r \in Requests :
        ( /\ IsPlainText(r)
          /\ \A q \in Requests \ {r} : pc[q] = "idle" )
        =>
        /\ pc[r] \in {"ask", "add_assistant", "send_reply"} \/ Occurs("get_history", effects[r])
              => history[r] = <<SystemEntry>>
        /\ Occurs("model", effects[r]) => utterance[r] = <<TextOf(r)>>
        /\ (pc[r] = "done" /\ status[r] = 200)
              => Turns(UserOf(r)) = << <<"user", TextOf(r)>>, <<"assistant", reply[r]>> >>

\* C3: an update whose message carries no text makes no Turn write and no
\* model call; its only effect is the one fixed notice, answered with 200.
C3_NonTextOnlyNotice ==
    \A r \in Requests :
        IsNonText(r) =>
            /\ ~Occurs("add_message", effects[r])
            /\ ~Occurs("model", effects[r])
            /\ sent[r] \in {<<>>, <<TEXT_ONLY_NOTICE>>}
            /\ (pc[r] = "done" /\ ~Occurs("send_raised", effects[r]))
                  => sent[r] = <<TEXT_ONLY_NOTICE>> /\ status[r] = 200

\* C4: when the model call raises, ask_gemini returns the fixed apology and
\* the request goes on: the assistant Turn it appends is (assistant, apology),
\* the text it sends is the apology, and its response is 200.
C4_ModelFailureApology ==
    \A r \in Requests :
        Occurs("model_raised", effects[r]) =>
            /\ reply[r] = APOLOGY
            /\ pc[r] \in {"add_assistant", "send_reply", "done"}
            /\ pc[r] = "add_assistant" => status[r] = 0
            /\ Count("add_message", effects[r]) = 2
                  => [user_id |-> UserOf(r), role |-> "assistant", text |-> APOLOGY]
                        \in inserted
            /\ pc[r] = "send_reply" => Count("add_message", effects[r]) = 2
            /\ Occurs("send", effects[r]) => sent[r] = <<APOLOGY>>
            /\ ( /\ pc[r] = "done"
                 /\ ~Occurs("storage_error", effects[r])
                 /\ ~Occurs("send_raised", effects[r]) )
                  => /\ status[r] = 200
                     /\ sent[r] = <<APOLOGY>>
                     /\ Count("add_message", effects[r]) = 2

\* A request whose model call raised has answered 200 after sending the
\* apology, and the apology is the newest row of the table.
C4_Witness ==
    \E r \in Requests :
        /\ Occurs("model_raised", effects[r])
        /\ pc[r] = "done"
        /\ status[r] = 200
        /\ sent[r] = <<APOLOGY>>
        /\ messages # <<>>
        /\ messages[Len(messages)].role = "assistant"
        /\ messages[Len(messages)].text = APOLOGY
        /\ messages[Len(messages)].user_id = UserOf(r)

\* C5: every request with a parsed JSON update ends with 200, whatever the
\* update holds and whatever the model call and the platform send do.  Stated
\* for the updates that are a non-empty JSON object and for the requests whose
\* storage calls all succeed.
C5_Always200 ==
    \A r \in Requests :
        ( /\ pc[r] = "done"
          /\ update[r].kind \in {"nomessage", "message"}
          /\ ~Occurs("storage_error", effects[r]) )
        => status[r] = 200

\* C6: a message whose trimmed text starts with /reset deletes every Turn of
\* its user, makes no model call and appends no Turn, sends the one
\* confirmation and answers 200; right after the delete get_history of that
\* user is empty.
C6_ResetClears ==
    /\ [](\A r \in Requests :
            IsReset(r) =>
                /\ ~Occurs("add_message", effects[r])
                /\ ~Occurs("model", effects[r])
                /\ utterance[r] = <<>>
                /\ sent[r] \in {<<>>, <<RESET_CONFIRMATION>>}
                /\ ( /\ pc[r] = "done"
                     /\ ~Occurs("storage_error", effects[r])
                     /\ ~Occurs("send_raised", effects[r]) )
                      => /\ status[r] = 200
                         /\ sent[r] = <<RESET_CONFIRMATION>>
                         /\ Count("clear_history", effects[r]) = 1)
    /\ [][\A r \in Requests :
            (pc[r] = "reset" /\ pc'[r] = "reset_send")
                => /\ get_history(UserOf(r), MAX_HISTORY_MESSAGES)' = <<>>
                   /\ Turns(UserOf(r))' = <<>>]_vars

\* A /reset of a user who had Turns has answered 200 after its confirmation,
\* and the user's history is empty.
C6_Witness ==
    \E r \in Requests :
        /\ IsReset(r)
        /\ pc[r] = "done"
        /\ status[r] = 200
        /\ sent[r] = <<RESET_CONFIRMATION>>
        /\ \E m \in inserted : m.user_id = UserOf(r)
        /\ get_history(UserOf(r), MAX_HISTORY_MESSAGES) = <<>>

\* C7: besides the system entry, the Conversation built for a user holds only
\* Turns that were appended with that user's id; so does every history a
\* request handed to the model.
C7_NoCrossUserLeak ==
    /\ \A u \in Users :
          LET conv == build_history_for_gemini(u)
          IN  \A i \in 2..Len(conv) :
                [user_id |-> u, role |-> conv[i].role, text |-> conv[i].content]
                    \in inserted
    /\ \A r \in Requests :
          \A i \in 2..Len(history[r]) :
              [user_id |-> UserOf(r), role |-> history[r][i].role,
               text |-> history[r][i].content] \in inserted

\* A request was handed a history with Turns of its user while the table
\* holds a row of another user that its own user never appended.
C7_Witness ==
    \E r \in Requests :
        /\ Len(history[r]) > 1
        /\ \E i \in 1..Len(messages) :
              /\ messages[i].user_id # UserOf(r)
              /\ [user_id |-> UserOf(r), role |-> messages[i].role,
                  text |-> messages[i].text] \notin inserted

\* C8: get_history returns Turns in insertion order: once (user, t1) and then
\* (assistant, t2) were appended for u, get_history(u, 2) is
\* [(user, t1), (assistant, t2)], also when both carry the same created_at.
C8_LastTwoInOrder ==
    LET n == Len(messages)
    IN  ( /\ n >= 2
          /\ messages[n - 1].user_id = messages[n].user_id
          /\ messages[n - 1].role = "user"
          /\ messages[n].role = "assistant" )
        => get_history(messages[n].user_id, 2)
              = << <<"user", messages[n - 1].text>>,
                   <<"assistant", messages[n].text>> >>

\* C9: requests of one user are not serialized: a request that is about to
\* append or to read is never made to wait for another request, so the
\* append and read steps of two requests of one user interleave freely.
C9_NotSerialized ==
    \A r \in Requests :
        /\ pc[r] = "add_user" => ENABLED AddUserMessage(r)
        /\ pc[r] = "build" => ENABLED BuildHistory(r)
        /\ pc[r] = "add_assistant" => ENABLED AddAssistantMessage(r)

\* Two requests of one user are both in flight with their histories built:
\* the history of the one includes the other's user Turn, the history of the
\* other omits the first one's.
C9_Witness ==
    \E r1, r2 \in Requests :
        /\ r1 # r2
        /\ IsNormalText(r1) /\ IsNormalText(r2)
        /\ UserOf(r1) = UserOf(r2)
        /\ TextOf(r1) # TextOf(r2)
        /\ pc[r1] \in {"ask", "add_assistant"}
        /\ pc[r2] \in {"ask", "add_assistant"}
        /\ Occurs([role |-> "user", content |-> TextOf(r1)], history[r2])
        /\ ~Occurs([role |-> "user", content |-> TextOf(r2)], history[r1])

\* C10: a storage failure of add_message, get_history or clear_history is not
\* swallowed: the request ends there with an unhandled fault (500, not 200)
\* and executes no later step: no model call after a failed read or first
\* append, no platform send after any of them.
C10_StorageErrorPropagates ==
    \A r \in Requests :
        Occurs("storage_error", effects[r]) =>
            /\ pc[r] = "done"
            /\ status[r] = 500
            /\ effects[r][Len(effects[r])] = "storage_error"
            /\ sent[r] = <<>>
            /\ ~Occurs("model", effects[r]) => (utterance[r] = <<>> /\ reply[r] = <<>>)
            /\ ~Occurs("get_history", effects[r]) => history[r] = <<>>
            /\ Count("add_message", effects[r]) <= 1

\* A request whose get_history failed after its user Turn was appended: it
\* ended with 500, called no model and sent nothing.
C10_Witness ==
    \E r \in Requests :
        /\ effects[r] = <<"parsed", "add_message", "storage_error">>
        /\ status[r] = 500
        /\ utterance[r] = <<>>
        /\ sent[r] = <<>>

NormalOrder == <<"parsed", "add_message", "get_history", "model", "add_message", "send">>
\* The steps request r has executed, without the log entries and the faults.
StepsOf(r) ==
    SelectSeq(effects[r],
              LAMBDA e : e \notin {"model_raised", "log_error", "storage_error", "send_raised"})

\* C12: for a non-command text the steps of the request occur in this order:
\* user Turn appended, history read and Conversation built, model called,
\* assistant Turn appended, reply sent, 200 returned; none before its
\* predecessor has completed.
C12_StepOrder ==
    [](
        \A r \in Requests :
            IsNormalText(r) =>
                /\ Len(StepsOf(r)) <= Len(NormalOrder)
                /\ StepsOf(r) = SubSeq(NormalOrder, 1, Len(StepsOf(r)))
                /\ status[r] = 200 => (pc[r] = "done" /\ StepsOf(r) = NormalOrder)
                /\ Occurs("get_history", effects[r])
                      => /\ Len(history[r]) >= 1
                         /\ [user_id |-> UserOf(r), role |-> "user", text |-> TextOf(r)]
                                \in inserted
                /\ ~Occurs("get_history", effects[r]) => history[r] = <<>>
                /\ Occurs("model", effects[r]) <=> utterance[r] = <<TextOf(r)>>
                /\ ~Occurs("model", effects[r]) => (utterance[r] = <<>> /\ reply[r] = <<>>)
                /\ Count("add_message", effects[r]) = 2
                      => [user_id |-> UserOf(r), role |-> "assistant", text |-> reply[r]]
                            \in inserted
                /\ Occurs("send", effects[r]) <=> sent[r] = <<reply[r]>>
                /\ ~Occurs("send", effects[r]) => (sent[r] = <<>> /\ status[r] # 200)
    )

\* A non-command text went through all six steps and was answered 200.
C12_Witness ==
    \E r \in Requests :
        /\ IsNormalText(r)
        /\ effects[r] = NormalOrder
        /\ status[r] = 200

\* The step of request r in which clear_history(user_id) commits.
ClearStep(r) == pc[r] = "reset" /\ pc'[r] = "reset_send"

\* C13: after clear_history(u), get_history(u, N) is empty for every N; and
\* clear_history is idempotent: on a user without rows (so also when called
\* a second time in a row) it succeeds and leaves the table as it was.
C13_ClearThenEmptyIdempotent ==
    [][\A r \in Requests :
        ClearStep(r) =>
            /\ \A N \in 0..(MAX_HISTORY_MESSAGES + 1) :
                  get_history(UserOf(r), N)' = <<>>
            /\ RowsOf(UserOf(r))' = <<>>
            /\ RowsOf(UserOf(r)) = <<>> => messages' = messages]_vars

\* Two /reset requests of one user have both cleared: the second call found
\* no row of the user and succeeded all the same.
C13_Witness ==
    \E r1, r2 \in Requests :
        /\ r1 # r2
        /\ IsReset(r1) /\ IsReset(r2)
        /\ UserOf(r1) = UserOf(r2)
        /\ Occurs("clear_history", effects[r1])
        /\ Occurs("clear_history", effects[r2])
        /\ ~Occurs("storage_error", effects[r1])
        /\ ~Occurs("storage_error", effects[r2])
        /\ get_history(UserOf(r1), MAX_HISTORY_MESSAGES) = <<>>

\* C14: in every state and for every user the Conversation is one system
\* entry followed by get_history(u, MAX_HISTORY_MESSAGES) verbatim, role for
\* role; it holds no other system entry and at most MAX_HISTORY_MESSAGES + 1
\* entries.  The histories handed to the model have the same shape.
C14_ConversationShape ==
    [](
        /\ \A u \in Users :
              /\ build_history_for_gemini(u)
                    = << [role |-> "system", content |-> SYSTEM_PROMPT] >>
                      \o AsEntries(get_history(u, MAX_HISTORY_MESSAGES))
              /\ Len(build_history_for_gemini(u)) <= MAX_HISTORY_MESSAGES + 1
              /\ \A m \in Range(get_history(u, MAX_HISTORY_MESSAGES)) :
                    m[1] \in {"user", "assistant"}
        /\ \A r \in Requests :
              history[r] # <<>> =>
                  /\ Len(history[r]) <= MAX_HISTORY_MESSAGES + 1
                  /\ history[r][1] = [role |-> "system", content |-> SYSTEM_PROMPT]
                  /\ \A i \in 2..Len(history[r]) :
                        history[r][i].role \in {"user", "assistant"}
    )

\* A user owns more rows than the limit and the Conversation is full.
C14_Witness ==
    \E u \in Users :
        /\ Len(RowsOf(u)) > MAX_HISTORY_MESSAGES
        /\ Len(build_history_for_gemini(u)) = MAX_HISTORY_MESSAGES + 1

\* s is an initial part of t.
IsPrefix(s, t) == Len(s) <= Len(t) /\ SubSeq(t, 1, Len(s)) = s

\* C15: stored Turns are immutable and go only by an explicit clear: in every
\* step the rows of a user stay as they are, with at most one row added
\* after them, unless the step is the clear of a /reset of that same user;
\* and that clear leaves the rows of every other user unchanged.
C15_TurnsImmutable ==
    [][\A u \in Users :
        /\ \/ /\ IsPrefix(RowsOf(u), RowsOf(u)')
              /\ Len(RowsOf(u)') <= Len(RowsOf(u)) + 1
           \/ \E r \in Requests :
                 /\ ClearStep(r)
                 /\ IsReset(r)
                 /\ UserOf(r) = u
                 /\ RowsOf(u)' = <<>>
        /\ \A r \in Requests :
              (ClearStep(r) /\ UserOf(r) # u) => RowsOf(u)' = RowsOf(u)]_vars

\* A /reset of one user has cleared while the table holds the Turn of
\* another user, which is still there.
C15_Witness ==
    \E r, q \in Requests :
        /\ IsReset(r)
        /\ Occurs("clear_history", effects[r])
        /\ IsNormalText(q)
        /\ UserOf(q) # UserOf(r)
        /\ Occurs("add_message", effects[q])
        /\ RowsOf(UserOf(q)) # <<>>
        /\ RowsOf(UserOf(r)) = <<>>

\* The step in which request r arrives carrying an update of kind k.
Arrives(r, k) == pc[r] = "idle" /\ pc'[r] # "idle" /\ update'[r].kind = k

Alternates(s) ==
    /\ Len(s) % 2 = 0
    /\ \A i \in 1..Len(s) :
          s[i][1] = (IF i % 2 = 1 THEN "user" ELSE "assistant")

\* Every request of user u that has arrived has responded, and none of them
\* met a storage error.
CompletedCleanly(u) ==
    \A r \in Requests :
        UserOf(r) = u =>
            /\ pc[r] = "done"
            /\ ~Occurs("storage_error", effects[r])

\* C17: when the requests of a user run one at a time and no storage call
\* fails, then after every completed request the user's Turns, in insertion
\* order, have even length and alternate user, assistant, ... starting with
\* a user Turn.  (Checked under SpecSequential.)
C17_Alternation ==
    \A u \in Users : CompletedCleanly(u) => Alternates(Turns(u))

\* Two non-command requests of one user, one after the other, have left
\* four alternating Turns.
C17_Witness ==
    \E u \in Users :
        /\ CompletedCleanly(u)
        /\ \A r \in Requests : IsNormalText(r) /\ UserOf(r) = u
        /\ Len(Turns(u)) = 4
        /\ Alternates(Turns(u))

\* The second half of C17, a state of Spec (overlapping requests): both
\* requests of one user have completed without a storage error and the
\* user's Turns do not alternate.
C17_OverlapBreaksAlternation ==
    \E u \in Users :
        /\ CompletedCleanly(u)
        /\ \A r \in Requests : IsNormalText(r) /\ UserOf(r) = u
        /\ ~Alternates(Turns(u))

\* Request r carries a message and no other request is of r's user.
OnlyRequestOfItsUser(r) ==
    /\ IsMessage(r)
    /\ \A q \in Requests \ {r} : UserOf(q) # UserOf(r)

\* The Turns request r has appended so far, read off r's own steps alone.
OwnTurns(r) ==
    LET n == IF IsNormalText(r) THEN Count("add_message", effects[r]) ELSE 0
    IN  (IF n >= 1 THEN << <<"user", TextOf(r)>> >> ELSE <<>>)
        \o (IF n >= 2 THEN << <<"assistant", reply[r]>> >> ELSE <<>>)

\* The Conversation request r builds when it runs with nothing else.
OwnConversation(r) == <<SystemEntry>> \o AsEntries(<< <<"user", TextOf(r)>> >>)

\* A step of request r that acts for a user other than u.
StepOfOtherUser(r, u) == pc'[r] # pc[r] /\ update'[r].user_id # u

\* C18: requests of distinct users do not interfere.  In every interleaving
\* the Turns of a user and the Conversation built for its request are what
\* that request's own steps make them, whatever the requests of other users
\* have done; and no step of a request of another user changes a user's
\* rows, from which alone every Conversation of that user is built.
C18_NonInterference ==
    /\ [](\A r \in Requests :
            OnlyRequestOfItsUser(r) =>
                /\ Turns(UserOf(r)) = OwnTurns(r)
                /\ Occurs("get_history", effects[r])
                      => history[r] = OwnConversation(r))
    /\ [][\A r \in Requests : \A u \in Users :
            StepOfOtherUser(r, u) =>
                RowsOf(u)' = RowsOf(u)]_vars

\* Two requests of distinct users have run interleaved to the end: the
\* appends of one fell between the two appends of the other.
C18_Witness ==
    \E r, q \in Requests :
        /\ UserOf(r) # UserOf(q)
        /\ IsNormalText(r) /\ IsNormalText(q)
        /\ pc[r] = "done" /\ pc[q] = "done"
        /\ Len(messages) = 4
        /\ messages[1].user_id = UserOf(r) /\ messages[2].user_id = UserOf(q)
        /\ messages[3].user_id = UserOf(q) /\ messages[4].user_id = UserOf(r)
        /\ history[r] = OwnConversation(r)
        /\ Turns(UserOf(r)) = OwnTurns(r)
====
